---- MODULE Spec2Model ----
(***************************************************************************)
(* chainerrl/experiments/train_agent_batch.py: the batched training loop   *)
(* train_agent_batch, as a state machine.  One action per call the loop    *)
(* makes to a collaborator (agent, vector environment, step hooks, results *)
(* file, logger, evaluator, save_agent); the array bookkeeping between the *)
(* calls is part of the action of the lines it sits on.                    *)
(***************************************************************************)
EXTENDS Integers, Sequences, FiniteSets, TLC

(* ------------------------------ bounds -------------------------------- *)
MaxEnvs == 2        \* largest env.num_envs tried
MaxSteps == 4       \* largest `steps` argument tried
MaxEpisodeLen == 2  \* largest max_episode_len tried
MaxWindow == 2      \* largest return_window_size tried
MaxHooks == 2       \* longest step_hooks list tried
MaxScore == 1       \* evaluator scores are drawn from 0..MaxScore

\* the rewards env.step may return
Rewards == {0, 1}

\* Python's None, for the optional integer arguments (all of which are >= 0).
None == -1

\* "no exception in flight"
NoExc == "NoExc"

Slots(n) == 1..n

B2I(b) == IF b THEN 1 ELSE 0

(* ------------------------------ state --------------------------------- *)
VARIABLES
    args,            \* the arguments of the call (fixed during the run)
    pc,              \* position in train_agent_batch
    num_processes,   \* line 82
    episode_r,       \* line 88
    episode_idx,     \* line 89
    episode_len,     \* line 90
    obs,             \* lines 93, 105
    obs_,            \* line 117
    r,               \* lines 94, 105
    done,            \* line 105
    info,            \* line 105, 112-113: info[i]['reset']
    reset_mask,      \* lines 107-110
    masks,           \* line 115
    t,               \* lines 96, 130
    recent_returns,  \* line 79: deque(maxlen=return_window_size)
    hook_i,          \* position in `for hook in step_hooks`
    exc,             \* the exception caught at line 150, or NoExc
    raised,          \* the exception the caller sees, or NoExc
    agent,           \* the agent: its counter t and what it was last given
    env,             \* the vector environment: per-instance episode, close() count
    evaluator,       \* the evaluator: max_score, close() count of its own env
    saved,           \* the save_agent calls made, in order
    results_file,    \* the lines of training_r.txt
    log,             \* the logger's records
    ncalls,          \* number of calls made to each collaborator method
    hist             \* history of the run: iterations, how the loop was left, ...

locals == <<num_processes, episode_r, episode_idx, episode_len, obs, obs_, r,
            done, info, reset_mask, masks, t, recent_returns, hook_i>>
world == <<agent, env, evaluator, saved, results_file, log>>
vars == <<args, pc, locals, exc, raised, world, ncalls, hist>>

(* ---------------------------- arguments ------------------------------- *)
\* The arguments of train_agent_batch (lines 52-56).  evaluator: "none"
\* (evaluator=None), "shared" (its env is the training env, as
\* train_agent_batch_with_evaluation builds it when eval_env is None) or
\* "distinct" (an eval_env of its own).  step_hooks: the number of hooks.
AllArgs ==
    [ num_envs           : {None} \cup (1..MaxEnvs),
      steps              : {0, MaxSteps},
      step_offset        : {0, 1},
      max_episode_len    : {None, 1, MaxEpisodeLen},
      return_window_size : {1, MaxWindow},
      log_interval       : {None, 2},
      eval_interval      : {None, 2},
      evaluator          : {"none", "shared", "distinct"},
      successful_score   : {None, MaxScore},
      save_training_r    : BOOLEAN,
      step_hooks         : {0, MaxHooks},
      agent_has_t        : BOOLEAN ]

\* The calls tried: the arguments fall into three groups, and a call departs
\* from the base call below in one group at a time; one more call has step
\* hooks together with a successful_score.
BaseEpisodes(a) ==
    /\ a.num_envs = 1 /\ a.steps = MaxSteps /\ a.step_offset = 0
    /\ a.max_episode_len = None
BaseReporting(a) ==
    /\ a.log_interval = 2 /\ a.eval_interval = 2 /\ a.evaluator = "shared"
    /\ a.successful_score = None /\ a.save_training_r
BaseOthers(a) ==
    a.return_window_size = MaxWindow /\ a.step_hooks = 0 /\ a.agent_has_t
Args ==
    {a \in AllArgs :
        \/ BaseReporting(a) /\ BaseOthers(a) /\ a.num_envs # None
        \/ BaseEpisodes(a) /\ BaseOthers(a)
        \/ BaseEpisodes(a) /\ BaseReporting(a)
        \/ /\ BaseEpisodes(a)
           /\ a.log_interval = 2 /\ a.eval_interval = 2
           /\ a.evaluator = "shared" /\ a.save_training_r
           /\ a.successful_score = MaxScore
           /\ a.return_window_size = MaxWindow /\ a.agent_has_t
           /\ a.step_hooks = MaxHooks
        \/ a.num_envs = None /\ a.steps = MaxSteps /\ a.step_offset = 0
           /\ a.max_episode_len = None /\ BaseReporting(a) /\ BaseOthers(a)}

(* --------------------------- pure helpers ----------------------------- *)
RECURSIVE Sum(_)
Sum(seq) == IF seq = <<>> THEN 0 ELSE Head(seq) + Sum(Tail(seq))

\* np.mean(xs) = sum(xs) / len(xs), kept as the pair <<sum, len>>; the mean of
\* an empty window is 0/0, which numpy returns as nan (with a warning, no raise).
Mean(xs) == <<Sum(xs), Len(xs)>>
IsNaN(m) == m[2] = 0

\* lines 107-110: reset_mask = episode_len == max_episode_len, or all False
ResetMask(n, elen, max_episode_len) ==
    [i \in Slots(n) |->
        IF max_episode_len = None THEN FALSE ELSE elen[i] = max_episode_len]

\* (a slip: the info dicts are left as env.step returned them)
SetReset_Skipped(inf, rmask) == inf
\* lines 112-113: for i, reset in zip(info, reset_mask): i['reset'] = reset
\* An info dict is the set of its <<key, value>> items.
SetReset(inf, rmask) ==
    [i \in DOMAIN inf |->
        {kv \in inf[i] : kv[1] # "reset"} \cup {<<"reset", rmask[i]>>}]

\* (a slip: "and" for "or")
MakeMasks_And(rmask, dn) == [i \in DOMAIN rmask |-> ~(rmask[i] /\ dn[i])]
\* line 115: masks = np.logical_not(np.logical_or(reset_mask, done))
MakeMasks(rmask, dn) == [i \in DOMAIN rmask |-> ~(rmask[i] \/ dn[i])]

\* lines 34-44: the helper _get_mask, which returns (info, mask)
_get_mask(n, inf, dn, elen, max_episode_len) ==
    LET rm == IF max_episode_len = None
              THEN [i \in Slots(n) |-> FALSE]
              ELSE [i \in Slots(n) |-> elen[i] = max_episode_len]
        inf2 == [i \in Slots(n) |->
                    {kv \in inf[i] : kv[1] # "reset"} \cup {<<"reset", rm[i]>>}]
        mask == [i \in Slots(n) |-> ~(rm[i] \/ dn[i])]
    IN  <<inf2, mask>>

\* line 121: episode_r += r
AddReward(er, rew) == [i \in DOMAIN er |-> er[i] + rew[i]]
\* line 122: episode_len += 1
IncLen(elen) == [i \in DOMAIN elen |-> elen[i] + 1]
\* (a slip: episode_idx += masks)
IncIdx_Continuing(eidx, m) == [i \in DOMAIN eidx |-> eidx[i] + B2I(m[i])]
\* line 123: episode_idx += 1 - masks
IncIdx(eidx, m) == [i \in DOMAIN eidx |-> eidx[i] + (1 - B2I(m[i]))]
\* (a slip: the arrays are never zeroed)
MulMask_Keep(x, m) == x
\* lines 128, 129: x *= masks
MulMask(x, m) == [i \in DOMAIN x |-> x[i] * B2I(m[i])]

\* line 125-126: np.ma.masked_array(episode_r, masks).compressed(): the entries
\* whose mask is False, in index order
RECURSIVE CompressedFrom(_, _, _)
CompressedFrom(er, m, i) ==
    IF i > Len(er) THEN <<>>
    ELSE (IF m[i] THEN <<>> ELSE <<er[i]>>) \o CompressedFrom(er, m, i + 1)
Compressed(er, m) == CompressedFrom(er, m, 1)

\* (a slip: a full deque refuses the new entry)
DequeAppend_KeepOldest(dq, x, maxlen) ==
    IF Len(dq) < maxlen THEN Append(dq, x) ELSE dq
\* collections.deque(maxlen=n): append drops the oldest entry of a full deque
DequeAppend(dq, x, maxlen) ==
    IF maxlen = 0 THEN <<>>
    ELSE IF Len(dq) < maxlen THEN Append(dq, x)
    ELSE Append(Tail(dq), x)
\* line 126: recent_returns.extend(xs) appends the items one by one
RECURSIVE DequeExtend(_, _, _)
DequeExtend(dq, xs, maxlen) ==
    IF xs = <<>> THEN dq
    ELSE DequeExtend(DequeAppend(dq, Head(xs), maxlen), Tail(xs), maxlen)

\* (a slip: the test is made on the step counter of before the iteration)
Due_Before(step, log_interval) == (step - 1) % log_interval = 0
\* lines 135, 138: t % log_interval == 0 (log_interval an int)
Due(step, log_interval) == step % log_interval = 0

\* (a slip: while t <= steps)
LoopCond_Inclusive(step, steps) == step <= steps
\* line 101: while t < steps
LoopCond(step, steps) == step < steps

\* (a slip: ">" for ">=")
Successful_Strict(max_score, successful_score) ==
    successful_score # None /\ max_score > successful_score
\* lines 146-147: successful_score is not None and max_score >= successful_score
Successful(max_score, successful_score) ==
    successful_score # None /\ max_score >= successful_score

(* ------------------------ the collaborators --------------------------- *)
\* The vector environment (chainerrl.envs: not in this file).  Each instance
\* has an episode in progress, of env.len[i] steps and return env.ret[i].
\* step(actions) advances every instance by one step.
EnvAfterStep(e, rew) ==
    [e EXCEPT !.len = [i \in DOMAIN e.len |-> e.len[i] + 1],
              !.ret = [i \in DOMAIN e.ret |-> e.ret[i] + rew[i]]]
\* reset(mask) starts a new episode in the instances whose mask is False
EnvAfterReset(e, m) ==
    [e EXCEPT !.len = [i \in DOMAIN e.len |-> IF m[i] THEN e.len[i] ELSE 0],
              !.ret = [i \in DOMAIN e.ret |-> IF m[i] THEN e.ret[i] ELSE 0]]
\* ... and returns the first observation of the new episodes, and the last
\* step's observation of the others
ResetObs(o, m, k) == [i \in DOMAIN o |-> IF m[i] THEN o[i] ELSE <<"reset", k>>]

Count(name) == [ncalls EXCEPT ![name] = @ + 1]

CallNames == {"batch_act_and_train", "env.step", "env.reset",
              "batch_observe_and_train", "hook", "_write_to_file",
              "logger.info", "logger.error", "get_statistics",
              "evaluate_if_necessary", "save_agent"}

(* ------------------------------- Init --------------------------------- *)
Init ==
    /\ args \in Args
    /\ pc = "setup"
    /\ num_processes = None
    /\ episode_r = <<>> /\ episode_idx = <<>> /\ episode_len = <<>>
    /\ obs = <<>> /\ obs_ = <<>> /\ r = <<>> /\ done = <<>> /\ info = <<>>
    /\ reset_mask = <<>> /\ masks = <<>>
    /\ t = None
    /\ recent_returns = <<>>
    /\ hook_i = 0
    /\ exc = NoExc /\ raised = NoExc
    /\ agent = [t |-> IF args.agent_has_t THEN 0 ELSE None,
                act_obs |-> <<>>, observed |-> <<>>]
    /\ env = [len |-> IF args.num_envs = None THEN <<>>
                      ELSE [i \in Slots(args.num_envs) |-> 0],
              ret |-> IF args.num_envs = None THEN <<>>
                      ELSE [i \in Slots(args.num_envs) |-> 0],
              closed |-> 0]
    /\ evaluator = [max_score |-> 0, env_closed |-> 0]
    /\ saved = <<>>
    /\ results_file = <<>>
    /\ log = <<>>
    /\ ncalls = [c \in CallNames |-> 0]
    /\ hist = [k |-> 0, loop_exit |-> "none", ends |-> <<>>, appended |-> <<>>,
               ended_ret |-> <<>>, ended_len |-> <<>>, hook_calls |-> <<>>,
               returns |-> <<>>]

(* ------------------------------ actions ------------------------------- *)
\* An exception raised inside the try block (lines 100-148) is caught at line 150.
Raise(e) ==
    /\ pc' = "except"
    /\ exc' = e
    /\ hist' = [hist EXCEPT !.loop_exit = "exception"]

\* (a slip: the AttributeError is logged and not re-raised)
HasNumEnvs_Swallowed(a) == TRUE
\* lines 81-83: env.num_envs raises AttributeError when env has no such attribute
HasNumEnvs(a) == a.num_envs # None

\* lines 78-98: everything before the try block
Setup ==
    /\ pc = "setup"
    /\ UNCHANGED <<args, exc, evaluator, saved, results_file>>
    /\ IF ~HasNumEnvs(args)
       THEN \* lines 83-86: logger.error(...); raise
            /\ pc' = "raised"
            /\ raised' = "AttributeError"
            /\ log' = Append(log, [level |-> "error", step |-> None,
                                   avg_r |-> <<0, 0>>, episode |-> 0])
            /\ ncalls' = Count("logger.error")
            /\ UNCHANGED <<locals, agent, env, hist>>
       ELSE /\ num_processes' = args.num_envs
            /\ recent_returns' = <<>>
            /\ episode_r' = [i \in Slots(args.num_envs) |-> 0]
            /\ episode_idx' = [i \in Slots(args.num_envs) |-> 0]
            /\ episode_len' = [i \in Slots(args.num_envs) |-> 0]
            \* line 93: obs = env.reset()
            /\ obs' = [i \in Slots(args.num_envs) |-> <<"reset", 0>>]
            /\ env' = EnvAfterReset(env, [i \in Slots(args.num_envs) |-> FALSE])
            /\ r' = [i \in Slots(args.num_envs) |-> 0]
            /\ t' = args.step_offset
            \* lines 97-98
            /\ agent' = IF args.agent_has_t
                        THEN [agent EXCEPT !.t = args.step_offset] ELSE agent
            /\ ncalls' = Count("env.reset")
            /\ hist' = [hist EXCEPT
                          !.ends = [i \in Slots(args.num_envs) |-> 0]]
            /\ pc' = "while"
            /\ UNCHANGED <<obs_, done, info, reset_mask, masks, hook_i,
                           raised, log>>

\* line 101: while t < steps
While ==
    /\ pc = "while"
    /\ IF LoopCond(t, args.steps)
       THEN pc' = "act" /\ hist' = hist
       ELSE pc' = "finish" /\ hist' = [hist EXCEPT !.loop_exit = "cond"]
    /\ UNCHANGED <<args, locals, exc, raised, world, ncalls>>

\* line 103: action = agent.batch_act_and_train(obs)
Act ==
    /\ pc = "act"
    /\ ncalls' = Count("batch_act_and_train")
    /\ agent' = [agent EXCEPT !.act_obs = obs]
    /\ \/ pc' = "step" /\ UNCHANGED <<exc, hist>>
       \/ Raise("batch_act_and_train")
    /\ UNCHANGED <<args, locals, raised, env, evaluator, saved, results_file, log>>

\* line 105: obs, r, done, info = env.step(action)
Step ==
    /\ pc = "step"
    /\ ncalls' = Count("env.step")
    /\ \/ \E rew \in [Slots(num_processes) -> Rewards],
             dn \in [Slots(num_processes) -> BOOLEAN] :
            /\ env' = EnvAfterStep(env, rew)
            /\ obs' = [i \in Slots(num_processes) |-> <<"step", hist.k + 1>>]
            /\ r' = rew
            /\ done' = dn
            /\ info' = [i \in Slots(num_processes) |-> {}]
            /\ pc' = "reset"
            /\ UNCHANGED <<exc, hist>>
       \/ /\ Raise("env.step")
          /\ UNCHANGED <<env, obs, r, done, info>>
    /\ UNCHANGED <<args, num_processes, episode_r, episode_idx, episode_len,
                   obs_, reset_mask, masks, t, recent_returns, hook_i, raised,
                   agent, evaluator, saved, results_file, log>>

\* lines 107-117: the masks, then obs_ = env.reset(masks)
Reset ==
    /\ pc = "reset"
    /\ reset_mask' = ResetMask(num_processes, episode_len, args.max_episode_len)
    /\ info' = SetReset(info, reset_mask')
    /\ masks' = MakeMasks(reset_mask', done)
    /\ ncalls' = Count("env.reset")
    /\ \/ /\ env' = EnvAfterReset(env, masks')
          /\ obs_' = ResetObs(obs, masks', hist.k + 1)
          /\ hist' = [hist EXCEPT !.ended_ret = env.ret, !.ended_len = env.len]
          /\ pc' = "observe"
          /\ UNCHANGED exc
       \/ /\ Raise("env.reset")
          /\ UNCHANGED <<env, obs_>>
    /\ UNCHANGED <<args, num_processes, episode_r, episode_idx, episode_len,
                   obs, r, done, t, recent_returns, hook_i, raised,
                   agent, evaluator, saved, results_file, log>>

\* line 119: agent.batch_observe_and_train(obs_, r, done, info)
Observe ==
    /\ pc = "observe"
    /\ ncalls' = Count("batch_observe_and_train")
    /\ agent' = [agent EXCEPT !.observed = <<obs_, r, done, info>>]
    /\ \/ pc' = "bookkeep" /\ UNCHANGED <<exc, hist>>
       \/ Raise("batch_observe_and_train")
    /\ UNCHANGED <<args, locals, raised, env, evaluator, saved, results_file, log>>

\* lines 121-130: the per-slot bookkeeping and t += num_processes
Bookkeep ==
    /\ pc = "bookkeep"
    /\ LET er == AddReward(episode_r, r)
           el == IncLen(episode_len)
           ended == Compressed(er, masks)
       IN  /\ episode_idx' = IncIdx(episode_idx, masks)
           /\ recent_returns' =
                  DequeExtend(recent_returns, ended, args.return_window_size)
           /\ episode_r' = MulMask(er, masks)
           /\ episode_len' = MulMask(el, masks)
           /\ hist' = [hist EXCEPT
                         !.k = @ + 1,
                         !.appended = ended,
                         !.returns = @ \o ended,
                         !.ends = [i \in DOMAIN @ |-> @[i] + B2I(~masks[i])]]
    /\ t' = t + num_processes
    /\ hook_i' = 0
    /\ pc' = IF args.step_hooks = 0 THEN "write" ELSE "hooks"
    /\ UNCHANGED <<args, num_processes, obs, obs_, r, done, info, reset_mask,
                   masks, exc, raised, world, ncalls>>

\* (a slip: the hooks are given the step counter of before the iteration)
HookCall_Stale(h) == [hook |-> h, t |-> t - num_processes]
\* line 133: hook(env, agent, t), for the h-th hook of step_hooks
HookCall(h) == [hook |-> h, t |-> t]

\* lines 132-133: for hook in step_hooks: hook(env, agent, t)
Hook ==
    /\ pc = "hooks"
    /\ hook_i < args.step_hooks
    /\ ncalls' = Count("hook")
    /\ \/ /\ hook_i' = hook_i + 1
          /\ pc' = IF hook_i + 1 = args.step_hooks THEN "write" ELSE "hooks"
          /\ hist' = [hist EXCEPT
                        !.hook_calls = Append(@, HookCall(hook_i + 1))]
          /\ UNCHANGED exc
       \/ \* the hook raises
          /\ pc' = "except"
          /\ exc' = "hook"
          /\ hist' = [hist EXCEPT
                        !.loop_exit = "exception",
                        !.hook_calls = Append(@, HookCall(hook_i + 1))]
          /\ UNCHANGED hook_i
    /\ UNCHANGED <<args, num_processes, episode_r, episode_idx, episode_len,
                   obs, obs_, r, done, info, reset_mask, masks, t,
                   recent_returns, raised, world>>

\* lines 135-136: if save_training_r and t % log_interval == 0: _write_to_file
Write ==
    /\ pc = "write"
    /\ IF ~args.save_training_r
       THEN pc' = "log" /\ UNCHANGED <<exc, hist, results_file, ncalls>>
       ELSE IF args.log_interval = None
       THEN \* t % None
            Raise("TypeError") /\ UNCHANGED <<results_file, ncalls>>
       ELSE IF ~Due(t, args.log_interval)
       THEN pc' = "log" /\ UNCHANGED <<exc, hist, results_file, ncalls>>
       ELSE /\ ncalls' = Count("_write_to_file")
            /\ \/ /\ results_file' =
                        Append(results_file,
                               [step |-> t, avg_r |-> Mean(recent_returns)])
                  /\ pc' = "log"
                  /\ UNCHANGED <<exc, hist>>
               \/ /\ Raise("_write_to_file")
                  /\ UNCHANGED results_file
    /\ UNCHANGED <<args, locals, raised, agent, env, evaluator, saved, log>>

\* lines 138-148: progress logging, evaluation, the early-success break
Log ==
    /\ pc = "log"
    /\ IF args.eval_interval = None
       THEN pc' = "while" /\ UNCHANGED <<exc, hist, log, evaluator, ncalls>>
       ELSE IF args.log_interval = None
       THEN \* t % None
            Raise("TypeError") /\ UNCHANGED <<log, evaluator, ncalls>>
       ELSE IF ~Due(t, args.log_interval)
       THEN pc' = "while" /\ UNCHANGED <<exc, hist, log, evaluator, ncalls>>
       ELSE LET line == [level |-> "info", step |-> t,
                         avg_r |-> Mean(recent_returns),
                         episode |-> Sum(episode_idx)]
                c1 == [ncalls EXCEPT !["logger.info"] = @ + 1]
                c2 == [c1 EXCEPT !["get_statistics"] = @ + 1]
                c3 == [c2 EXCEPT !["evaluate_if_necessary"] = @ + 1]
            IN  \/ \* logger.info raises
                   /\ Raise("logger.info")
                   /\ ncalls' = c1
                   /\ UNCHANGED <<log, evaluator>>
                \/ \* agent.get_statistics raises
                   /\ Raise("get_statistics")
                   /\ ncalls' = c2
                   /\ log' = Append(log, line)
                   /\ UNCHANGED evaluator
                \/ /\ args.evaluator = "none"
                   /\ ncalls' = c2
                   /\ log' = Append(log, line)
                   /\ pc' = "while"
                   /\ UNCHANGED <<exc, hist, evaluator>>
                \/ \* evaluator.evaluate_if_necessary raises
                   /\ args.evaluator # "none"
                   /\ Raise("evaluate_if_necessary")
                   /\ ncalls' = c3
                   /\ log' = Append(log, line)
                   /\ UNCHANGED evaluator
                \/ /\ args.evaluator # "none"
                   /\ ncalls' = c3
                   /\ log' = Append(log, line)
                   /\ \E score \in evaluator.max_score..MaxScore :
                        /\ evaluator' = [evaluator EXCEPT !.max_score = score]
                        /\ IF Successful(score, args.successful_score)
                           THEN /\ pc' = "finish"
                                /\ hist' = [hist EXCEPT !.loop_exit = "break"]
                           ELSE /\ pc' = "while"
                                /\ hist' = hist
                   /\ UNCHANGED exc
    /\ UNCHANGED <<args, locals, raised, agent, env, saved, results_file>>

\* An external interruption (KeyboardInterrupt).  It can arrive anywhere in
\* the try block; during a call it reaches the handler the way the callee's own
\* exception does, so it is raised here where the loop runs code of its own.
Interrupt ==
    /\ pc \in {"while", "bookkeep"}
    /\ Raise("KeyboardInterrupt")
    /\ UNCHANGED <<args, locals, raised, world, ncalls>>

\* line 152: save_agent(agent, t, outdir, logger, suffix='_except')
ExceptCall == [suffix |-> "_except", t |-> t]
\* (a slip: the checkpoint is named after `steps`)
FinishCall_Steps == [suffix |-> "_finish", t |-> args.steps]
\* line 159: save_agent(agent, t, outdir, logger, suffix='_finish')
FinishCall == [suffix |-> "_finish", t |-> t]

\* lines 152-155 after a save_agent that returned: the close() calls
CloseEnvs(e, ev, which) ==
    IF which = "none" THEN <<[e EXCEPT !.closed = @ + 1], ev>>
    ELSE IF which = "shared" THEN <<[e EXCEPT !.closed = @ + 2], ev>>
    ELSE <<[e EXCEPT !.closed = @ + 1], [ev EXCEPT !.env_closed = @ + 1]>>

\* lines 150-156: except (Exception, KeyboardInterrupt)
Except ==
    /\ pc = "except"
    /\ saved' = Append(saved, ExceptCall)
    /\ ncalls' = Count("save_agent")
    /\ pc' = "raised"
    /\ \/ \* save_agent returns
          /\ env' = CloseEnvs(env, evaluator, args.evaluator)[1]
          /\ evaluator' = CloseEnvs(env, evaluator, args.evaluator)[2]
          /\ raised' = exc
       \/ \* save_agent raises: its exception leaves the handler
          /\ raised' = "save_agent"
          /\ UNCHANGED <<env, evaluator>>
    /\ UNCHANGED <<args, locals, exc, agent, results_file, log, hist>>

\* lines 157-159: else: save_agent(..., suffix='_finish')
Finish ==
    /\ pc = "finish"
    /\ saved' = Append(saved, FinishCall)
    /\ ncalls' = Count("save_agent")
    /\ \/ pc' = "returned" /\ raised' = raised
       \/ pc' = "raised" /\ raised' = "save_agent"
    /\ UNCHANGED <<args, locals, exc, agent, env, evaluator, results_file,
                   log, hist>>

Next ==
    \/ Setup \/ While \/ Act \/ Step \/ Reset \/ Observe \/ Bookkeep
    \/ Hook \/ Write \/ Log \/ Interrupt \/ Except \/ Finish

Spec == Init /\ [][Next]_vars

(* ------------------------------- claims ------------------------------- *)
\* The loop was left by an exception and the call is over.
LeftByException == pc = "raised" /\ exc # NoExc
\* The loop was left without an exception and the call is over.
LeftNormally ==
    pc \in {"returned", "raised"} /\ hist.loop_exit \in {"cond", "break"}

\* C1: whenever an exception raised inside a training iteration has ended the
\* call, save_agent was called once, with suffix '_except' and the value t had
\* when the exception was raised, no '_finish' checkpoint was made, and the
\* exception the caller sees is the one that was raised in the loop.
C1_OriginalExceptionPropagates ==
    LeftByException =>
        /\ saved = <<[suffix |-> "_except", t |-> t]>>
        /\ raised = exc

\* C2: whenever an exception raised inside a training iteration has ended the
\* call with the '_except' checkpoint written, the training environment was
\* closed exactly once, and the evaluator's environment was closed (once) only
\* if there is an evaluator whose environment is not the training environment.
C2_CloseExactlyOnce ==
    (LeftByException /\ raised = exc) =>
        /\ env.closed = 1
        /\ evaluator.env_closed = IF args.evaluator = "distinct" THEN 1 ELSE 0

\* C3: whichever way the loop was left (t >= steps, the early-success break or
\* an exception), once the call is over the training environment has been
\* closed exactly once and exactly one checkpoint has been made.
C3_ClosedOnEveryExit ==
    (pc \in {"returned", "raised"} /\ hist.loop_exit # "none") =>
        /\ env.closed = 1
        /\ Len(saved) = 1

\* C4: when the loop ends without an exception (t >= steps, also with no
\* iteration at all, or the early-success break), save_agent is called exactly
\* once, with suffix '_finish' and the final t, and never with '_except'; no
\* run makes more than one save_agent call.
C4_FinishCheckpoint ==
    /\ Len(saved) <= 1
    /\ hist.loop_exit \in {"cond", "break"} =>
          \A j \in 1..Len(saved) : saved[j].suffix # "_except"
    /\ LeftNormally => saved = <<[suffix |-> "_finish", t |-> t]>>

\* C4 witness: a run that left the loop by the early-success break, with t
\* short of steps, and returned after its '_finish' checkpoint
C4_Witness ==
    /\ pc = "returned" /\ hist.loop_exit = "break" /\ t < args.steps
    /\ saved = <<[suffix |-> "_finish", t |-> t]>>

\* The masks of the current iteration have been computed and the bookkeeping
\* of lines 121-130 has not run yet: episode_len is still the value they read.
MasksComputed == pc \in {"observe", "bookkeep"}
\* The bookkeeping of the current iteration has just run.
Bookkept == pc \in {"hooks", "write", "log"}

\* C5: with max_episode_len = M, the reset mask of a slot is true in the
\* iteration in which its episode_len, after that iteration's increment,
\* reaches M, and no episode of the environment ever has more than M steps.
C5_ForcedResetAtMaxLen ==
    args.max_episode_len # None =>
        /\ MasksComputed =>
              \A i \in Slots(num_processes) :
                  reset_mask[i] = (episode_len[i] + 1 = args.max_episode_len)
        /\ \A i \in DOMAIN env.len : env.len[i] <= args.max_episode_len

\* C6: in every iteration and for every slot i, the mask passed to
\* env.reset(mask) is NOT (done[i] OR reset_mask[i]); the environment has
\* started a new episode in exactly the slots that are done or force-reset;
\* and the helper _get_mask gives the same mask and info on the same inputs.
C6_ContinuationMask ==
    MasksComputed =>
        /\ \A i \in Slots(num_processes) :
              /\ masks[i] = ~(done[i] \/ reset_mask[i])
              /\ (env.len[i] = 0) = (done[i] \/ reset_mask[i])
        /\ _get_mask(num_processes, info, done, episode_len,
                     args.max_episode_len) = <<info, masks>>

\* C6 witness: an iteration of two slots, one force-reset without being done,
\* the other continuing
C6_Witness ==
    /\ MasksComputed /\ num_processes = 2
    /\ \E i, j \in Slots(2) :
          /\ reset_mask[i] /\ ~done[i] /\ ~masks[i]
          /\ ~reset_mask[j] /\ ~done[j] /\ masks[j]

\* C7: for every slot i, episode_idx[i] grows by exactly 1 in an iteration
\* whose mask is false for i and by 0 otherwise, so it always equals the number
\* of false-mask iterations of the slot, and it never decreases.  With N = 2,
\* steps = 4, no max_episode_len and done = [F, T] then [T, F], episode_idx is
\* [0, 1] after the first iteration and [1, 1] after the second, where t = 4.
\* (hist.k counts the iterations whose bookkeeping has run.)
C7_EpisodeIdx ==
    /\ [](num_processes # None =>
            \A i \in Slots(num_processes) : episode_idx[i] = hist.ends[i])
    /\ [][hist'.k = hist.k + 1 =>
            \A i \in Slots(num_processes) :
                episode_idx'[i] = episode_idx[i] + (IF masks[i] THEN 0 ELSE 1)]_vars
    /\ [][(pc # "setup" /\ hist'.k = hist.k) => episode_idx' = episode_idx]_vars
    /\ [][(/\ hist'.k = hist.k + 1 /\ num_processes = 2
           /\ args.max_episode_len = None /\ args.step_offset = 0)
          => /\ (hist.k = 0 /\ done = <<FALSE, TRUE>>)
                    => episode_idx' = <<0, 1>>
             /\ (hist.k = 1 /\ done = <<TRUE, FALSE>> /\ episode_idx = <<0, 1>>)
                    => (episode_idx' = <<1, 1>> /\ t' = 4)]_vars

\* C7 witness: the end of the scenario
C7_Witness ==
    /\ pc = "returned" /\ num_processes = 2 /\ args.steps = 4
    /\ args.max_episode_len = None /\ args.step_offset = 0
    /\ done = <<TRUE, FALSE>> /\ episode_idx = <<1, 1>> /\ t = 4

\* the returns of the episodes that the last env.reset(masks) ended, by slot
RECURSIVE EndedReturnsFrom(_)
EndedReturnsFrom(i) ==
    IF i > num_processes THEN <<>>
    ELSE (IF masks[i] THEN <<>> ELSE <<hist.ended_ret[i]>>)
         \o EndedReturnsFrom(i + 1)

\* the last n entries of a sequence
LastN(seq, n) == SubSeq(seq, Len(seq) - n + 1, Len(seq))

\* C8: after the bookkeeping of an iteration, the values appended to the
\* recent-returns window are, in slot order, the returns of the episodes that
\* ended in it (all rewards of the slot since its previous episode end, this
\* iteration's included), and they are the newest entries of the window; a
\* slot whose mask is false has episode_r = episode_len = 0; a slot whose mask
\* is true has appended nothing and keeps the return and the length of its
\* episode in progress.
C8_ReturnsBookkeeping ==
    Bookkept =>
        /\ hist.appended = EndedReturnsFrom(1)
        /\ LET n == IF Len(hist.appended) < args.return_window_size
                    THEN Len(hist.appended) ELSE args.return_window_size
           IN  Len(recent_returns) >= n
               /\ LastN(recent_returns, n) = LastN(hist.appended, n)
        /\ \A i \in Slots(num_processes) :
              IF masks[i]
              THEN episode_r[i] = env.ret[i] /\ episode_len[i] = env.len[i]
                   /\ episode_len[i] > 0
              ELSE episode_r[i] = 0 /\ episode_len[i] = 0

\* C8 witness: a slot ends an episode of more than one step with a return of
\* more than one reward while the other slot continues
C8_Witness ==
    /\ Bookkept /\ num_processes = 2
    /\ \E i, j \in Slots(2) :
          /\ ~masks[i] /\ hist.ended_len[i] = 2 /\ hist.ended_ret[i] = 2
          /\ hist.appended = <<2>>
          /\ masks[j] /\ episode_len[j] = 1

\* C9: t starts at step_offset, which is also written to agent.t when the agent
\* has a t; after k iterations t = step_offset + k * num_envs; and a run whose
\* loop ends by its condition ends with the first t of that sequence that is
\* >= steps.
C9_StepCounter ==
    num_processes # None =>
        /\ t = args.step_offset + hist.k * num_processes
        /\ agent.t = IF args.agent_has_t THEN args.step_offset ELSE None
        /\ hist.loop_exit = "cond" =>
              /\ t >= args.steps
              /\ hist.k > 0 => t - num_processes < args.steps

\* C9 witness: a run of two environments from step_offset = 1 that ends past steps
C9_Witness ==
    /\ pc = "returned" /\ hist.loop_exit = "cond" /\ num_processes = 2
    /\ args.step_offset = 1 /\ hist.k > 0 /\ t > args.steps

\* the calls made to the agent and the environment are those of hist.k
\* complete iterations
CallsOfIterations ==
    /\ ncalls["batch_act_and_train"] = hist.k
    /\ ncalls["env.step"] = hist.k
    /\ ncalls["env.reset"] = hist.k + 1
    /\ ncalls["batch_observe_and_train"] = hist.k

\* C10: once successful_score is set and the evaluator's max_score has reached
\* it, the loop is over: it was left by the break in the iteration of that
\* evaluation, no call to the agent or the environment follows, t stays where
\* it was (short of steps when the evaluation came at t < steps), and the run
\* ends with the '_finish' checkpoint.
C10_EarlySuccess ==
    /\ (args.successful_score # None
        /\ evaluator.max_score >= args.successful_score) =>
          /\ hist.loop_exit = "break"
          /\ pc \in {"finish", "returned", "raised"}
          /\ exc = NoExc
          /\ CallsOfIterations
          /\ t = args.step_offset + hist.k * num_processes
          /\ pc # "finish" => saved = <<[suffix |-> "_finish", t |-> t]>>
    /\ hist.loop_exit = "break" =>
          /\ args.successful_score # None
          /\ evaluator.max_score >= args.successful_score

\* C10 witness: a run stopped by the break before t reached steps
C10_Witness ==
    /\ pc = "returned" /\ hist.loop_exit = "break" /\ t < args.steps
    /\ evaluator.max_score >= args.successful_score
    /\ hist.k = 2

\* C11: in every iteration the info record of each slot i given to
\* agent.batch_observe_and_train has info[i]['reset'] equal to the slot's reset
\* mask, which is true only when episode_len has hit max_episode_len, whatever
\* done is, and is set before the agent observes; with max_episode_len unset
\* the reset mask and every info[i]['reset'] are false in all iterations.
C11_InfoReset ==
    /\ MasksComputed =>
          \A i \in Slots(num_processes) :
              /\ reset_mask[i] = (args.max_episode_len # None
                                  /\ episode_len[i] = args.max_episode_len)
              /\ <<"reset", reset_mask[i]>> \in info[i]
              /\ <<"reset", ~reset_mask[i]>> \notin info[i]
    /\ pc = "bookkeep" => agent.observed = <<obs_, r, done, info>>
    /\ args.max_episode_len = None =>
          /\ \A i \in DOMAIN reset_mask : ~reset_mask[i]
          /\ \A i \in DOMAIN info : <<"reset", TRUE>> \notin info[i]
          /\ agent.observed # <<>> =>
                \A i \in Slots(num_processes) :
                    <<"reset", TRUE>> \notin agent.observed[4][i]

\* C11 witness: the agent has observed an iteration of two slots in which one
\* slot is force-reset without being done and the other is done without being
\* force-reset
C11_Witness ==
    /\ pc = "bookkeep" /\ num_processes = 2
    /\ \E i, j \in Slots(2) :
          /\ <<"reset", TRUE>> \in agent.observed[4][i] /\ ~done[i]
          /\ <<"reset", FALSE>> \in agent.observed[4][j] /\ done[j]

\* the step counter after the j-th iteration
StepAfter(j) == args.step_offset + j * num_processes

\* the hook calls of n complete iterations followed by the first m hooks of the
\* next one: every hook once per iteration, in the order of step_hooks, with
\* the step counter the iteration ended with
HookCallsOf(n, m) ==
    [p \in 1..(n * args.step_hooks + m) |->
        [hook |-> ((p - 1) % args.step_hooks) + 1,
         t |-> StepAfter(((p - 1) \div args.step_hooks) + 1)]]

\* C12: every step hook is called exactly once per completed iteration, in
\* registration order, with the step counter already advanced by the
\* iteration, after agent.batch_observe_and_train and the bookkeeping and
\* before any results-file write, logging or evaluator call of that iteration,
\* the iteration that ends by the early-success break included.
C12_StepHooks ==
    (num_processes # None /\ args.step_hooks > 0) =>
        /\ pc = "hooks" =>
              /\ hist.hook_calls = HookCallsOf(hist.k - 1, hook_i)
              /\ ncalls["batch_observe_and_train"] = hist.k
              /\ t = StepAfter(hist.k)
              /\ \A j \in 1..Len(results_file) : results_file[j].step < t
              /\ \A j \in 1..Len(log) : log[j].step < t
        /\ (pc \in {"write", "log", "while", "act", "step", "reset", "observe",
                    "bookkeep", "finish", "returned"}) =>
              hist.hook_calls = HookCallsOf(hist.k, 0)
        /\ (pc \in {"write", "log"} /\ hist.k > 0) =>
              /\ Len(hist.hook_calls) >= args.step_hooks
              /\ \A h \in 1..args.step_hooks :
                    hist.hook_calls[(hist.k - 1) * args.step_hooks + h]
                        = [hook |-> h, t |-> t]

\* C12 witness: a run with two hooks that ended by the early-success break in
\* its second iteration, each hook having been called in both iterations
C12_Witness ==
    /\ pc = "returned" /\ hist.loop_exit = "break" /\ hist.k = 2
    /\ args.step_hooks = 2 /\ Len(hist.hook_calls) = 4
    /\ hist.hook_calls[4] = [hook |-> 2, t |-> t]

\* C13: the recent-returns window never holds more than return_window_size
\* entries; it holds the most recently completed episode returns, in the order
\* the episodes completed (slot order within an iteration); and appending to a
\* full window evicts exactly its oldest entry.  (hist.returns is every return
\* completed so far, in that order.)
C13_BoundedFifo ==
    /\ [](/\ Len(recent_returns) <= args.return_window_size
          /\ LET n == IF Len(hist.returns) < args.return_window_size
                      THEN Len(hist.returns) ELSE args.return_window_size
             IN  /\ Len(recent_returns) = n
                 /\ \A j \in 1..n :
                       recent_returns[j] = hist.returns[Len(hist.returns) - n + j])
    /\ [][(/\ hist'.k = hist.k + 1
           /\ Len(recent_returns) = args.return_window_size
           /\ Len(hist'.appended) = 1)
          => recent_returns' = Append(Tail(recent_returns), hist'.appended[1])]_vars

\* C13 witness: a window of two entries that has evicted an older return with
\* another value
C13_Witness ==
    /\ args.return_window_size = 2 /\ Len(hist.returns) = 3
    /\ hist.returns[1] = 1 /\ recent_returns = <<0, 0>>

\* the iterations among the first n whose advanced step counter is a multiple
\* of log_interval
DueIterations(n) ==
    {j \in 1..n : StepAfter(j) % args.log_interval = 0}

\* the write of lines 135-136 is behind for the iteration in progress
WriteDone == pc \in {"log", "while", "act", "step", "reset", "observe",
                     "bookkeep", "finish", "returned"}

\* C14: with save_training_r true and log_interval an integer, one line
\* (t, mean of the recent-returns window) is appended to the results file in
\* each iteration whose advanced t is a multiple of log_interval and none in
\* any other iteration, so that the file has as many lines as there were such
\* iterations, with increasing t; with save_training_r false the file gets no
\* line.
C14_ResultsFile ==
    /\ ~args.save_training_r => results_file = <<>>
    /\ (args.save_training_r /\ args.log_interval # None
        /\ num_processes # None) =>
          /\ \A j \in 1..Len(results_file) :
                /\ results_file[j].step % args.log_interval = 0
                /\ \E i \in 1..hist.k : results_file[j].step = StepAfter(i)
                /\ j > 1 => results_file[j - 1].step < results_file[j].step
          /\ (WriteDone /\ exc = NoExc) =>
                Len(results_file) = Cardinality(DueIterations(hist.k))
          /\ (pc = "write" /\ hist.k > 0) =>
                Len(results_file) = Cardinality(DueIterations(hist.k - 1))
          /\ (pc = "log" /\ t % args.log_interval = 0) =>
                results_file[Len(results_file)] =
                    [step |-> t,
                     avg_r |-> <<Sum(recent_returns), Len(recent_returns)>>]

\* C14 witness: a finished run of four iterations of one environment with
\* log_interval 2: two lines, for t = 2 and t = 4
C14_Witness ==
    /\ pc = "returned" /\ args.save_training_r /\ args.log_interval = 2
    /\ hist.k = 4 /\ Len(results_file) = 2
    /\ results_file[1].step = 2 /\ results_file[2].step = 4
    /\ results_file[2].avg_r[2] > 0

\* C15: a mean computed over an empty recent-returns window (a nan) is never
\* written to the results file and never logged: when no episode has completed
\* at a write or logging point, the write is skipped or a sentinel is emitted.
C15_EmptyWindowGuarded ==
    /\ \A j \in 1..Len(results_file) : results_file[j].avg_r[2] # 0
    /\ \A j \in 1..Len(log) :
          log[j].level = "info" => log[j].avg_r[2] # 0

\* C16: when env has no num_envs, train_agent_batch logs one error and raises
\* the AttributeError at once: env.reset, env.step, the agent's methods, the
\* step hooks, the evaluator, save_agent and env.close are never called and no
\* checkpoint of either kind is made.
C16_NoNumEnvs ==
    args.num_envs = None =>
        /\ pc \in {"setup", "raised"}
        /\ \A c \in CallNames \ {"logger.error"} : ncalls[c] = 0
        /\ saved = <<>> /\ results_file = <<>>
        /\ env.closed = 0 /\ evaluator.env_closed = 0
        /\ exc = NoExc
        /\ pc = "raised" =>
              /\ raised = "AttributeError"
              /\ ncalls["logger.error"] = 1
              /\ Len(log) = 1 /\ log[1].level = "error"

\* C16 witness: the call on an env without num_envs is over
C16_Witness ==
    /\ args.num_envs = None /\ pc = "raised" /\ raised = "AttributeError"
    /\ Len(log) = 1

\* C17: for every slot whose episode ended in iteration k (mask false), the
\* observation given to agent.batch_act_and_train in iteration k+1 is the
\* post-reset observation that env.reset(mask) returned in iteration k, the
\* one that was given to agent.batch_observe_and_train, and not the terminal
\* observation env.step returned.
C17_ActsOnResetObservation ==
    (pc = "step" /\ hist.k >= 1) =>
        \A i \in Slots(num_processes) :
            ~masks[i] =>
                /\ agent.act_obs[i] = obs_[i]
                /\ agent.act_obs[i] = agent.observed[1][i]
                /\ agent.act_obs[i] = <<"reset", hist.k>>

\* C18: with log_interval left unset (None), and an eval_interval and an
\* evaluator given as train_agent_batch_with_evaluation always gives them, no
\* exception is raised for the missing interval, and a run that nothing else
\* interrupts ends with its '_finish' checkpoint.  (save_training_r is at its
\* default, False.)
C18_LogIntervalUnset ==
    (args.log_interval = None /\ args.eval_interval # None
     /\ args.evaluator # "none" /\ ~args.save_training_r) =>
        /\ exc # "TypeError"
        /\ raised # "TypeError"

\* C19: when save_agent raises while the handler deals with an exception of the
\* loop, the training environment (and an evaluator environment of its own) has
\* still been closed when the call is over, and the caller sees the exception
\* of the loop.
C19_BestEffortCheckpoint ==
    LeftByException =>
        /\ env.closed >= 1
        /\ args.evaluator = "distinct" => evaluator.env_closed >= 1
        /\ raised = exc

====
